---- MODULE Spec2Model ----
(***************************************************************************)
(* A model of the adaptive scheduling and scoring engine of CureIQ         *)
(* (session.py: SessionManager) over the tables of models.py.              *)
(*                                                                         *)
(* Real numbers (ranks, averages, scores) are exact rationals <<n, d>>     *)
(* with d > 0 in lowest terms; the Python code uses binary floats, so the  *)
(* model abstracts from rounding in the last place.  Response times are    *)
(* whole seconds and the clock counts whole days.                          *)
(***************************************************************************)
EXTENDS Integers, Sequences, FiniteSets, TLC

\* ------------------------------------------------------------------ bounds
MaxQuestions == 4      \* rows of the questions table
MaxAnswers == 3        \* a session starts only if its answers keep the sum of times_seen <= MaxAnswers
MaxDay == 1            \* the clock runs over the days 0..MaxDay
MaxTexts == 3          \* the question texts offered to the ingestion are 1..MaxTexts
MaxBatch == 2          \* an ingest_bulk input holds at most MaxBatch questions
MaxLimit == 2          \* num_questions ranges over -1..MaxLimit

\* ------------------------------------------------------------- rationals
Abs(x) == IF x < 0 THEN -x ELSE x

RECURSIVE Gcd(_, _)
Gcd(a, b) == IF b = 0 THEN a ELSE Gcd(b, a % b)

Rat(n, d) ==
  LET s == IF d < 0 THEN -1 ELSE 1
      g == Gcd(Abs(n), Abs(d))
  IN  <<(s * n) \div g, (s * d) \div g>>

IntR(n) == <<n, 1>>
Zero == IntR(0)

RAdd(a, b) ==
  LET g == Gcd(a[2], b[2])
      l == (a[2] \div g) * b[2]
  IN  Rat(a[1] * (l \div a[2]) + b[1] * (l \div b[2]), l)

RNeg(a) == <<-a[1], a[2]>>
RSub(a, b) == RAdd(a, RNeg(b))

RMul(a, b) ==
  LET g1 == Gcd(Abs(a[1]), b[2])
      g2 == Gcd(Abs(b[1]), a[2])
  IN  Rat((a[1] \div g1) * (b[1] \div g2), (a[2] \div g2) * (b[2] \div g1))

RInv(a) == IF a[1] < 0 THEN <<-a[2], -a[1]>> ELSE <<a[2], a[1]>>
RDiv(a, b) == RMul(a, RInv(b))

\* a/b < c/d for b, d > 0, by comparing integer parts and then the
\* reciprocals of the fractional parts (no cross products)
RECURSIVE FracLess(_, _, _, _)
FracLess(a, b, c, d) ==
  LET qa == a \div b
      qc == c \div d
      ra == a % b
      rc == c % d
  IN  IF qa # qc THEN qa < qc
      ELSE IF rc = 0 THEN FALSE
      ELSE IF ra = 0 THEN TRUE
      ELSE FracLess(d, rc, b, ra)

RLt(a, b) == FracLess(a[1], a[2], b[1], b[2])
RLe(a, b) == ~RLt(b, a)
RMax(a, b) == IF RLt(a, b) THEN b ELSE a
RMin(a, b) == IF RLt(b, a) THEN b ELSE a

\* Python int(x): truncation toward zero
Trunc(a) == IF a[1] >= 0 THEN a[1] \div a[2] ELSE -((-a[1]) \div a[2])

\* ------------------------------------------------------------ the tables
QIds == 1..MaxQuestions

\* The rows of the questions table (models.py: Question).  Text columns are
\* sequences of one-character strings; NoText stands for SQL NULL / None.
NoText == <<"NULL">>

QuestionRows ==
  << [subject |-> <<"A", "b">>, sub_subject |-> NoText,
      options |-> << <<" ", "P">>, <<"[", "Q", "]">> >>, correct_option |-> <<"P", " ">>],
     [subject |-> <<"b">>, sub_subject |-> <<"x">>,
      options |-> << <<"P">>, <<"Q">>, <<" ", "A", ".", " ", "Q", " ">> >>,
      correct_option |-> <<"'", "Q", "'">>],
     [subject |-> <<"A", "b">>, sub_subject |-> <<"y">>,
      options |-> << <<"P">>, <<"Q">> >>, correct_option |-> <<"Q">>],
     \* a row whose options column holds "[]": collector.py passes the
     \* json.dumps text of an empty list to ingest_single, which accepts any
     \* non-empty string; present_question parses it to the empty list
     [subject |-> <<"c">>, sub_subject |-> NoText,
      options |-> <<>>, correct_option |-> <<"P">>] >>

Question(q) == QuestionRows[((q - 1) % Len(QuestionRows)) + 1]

\* The response times (seconds) the presentation layer may measure
ResponseTimes == {1, 60}

\* ------------------------------------------------ SessionManager.__init__
DefaultConfig ==
  [max_response_time |-> 60, max_days |-> 30,
   weight_correct |-> IntR(1), weight_response_time |-> Rat(1, 2),
   weight_time |-> Rat(1, 2), weight_rank |-> Rat(1, 10), weight_trend |-> IntR(2)]

OtherConfig ==
  [max_response_time |-> 30, max_days |-> 1,
   weight_correct |-> IntR(2), weight_response_time |-> IntR(1),
   weight_time |-> IntR(3), weight_rank |-> IntR(1), weight_trend |-> Rat(1, 2)]

Configs == {DefaultConfig, OtherConfig}

\* --------------------------------------------------------------- state
VARIABLES
  now,        \* datetime.utcnow(), in days
  perf,       \* the user_performance table: question id -> row
  pc,         \* where start_session is: "idle", "selected", "present", "update", "report",
              \* "quit"; inside present_question also "input" and "validate"
  args,       \* the arguments of select_questions, until its result is used
  scored,     \* scored_questions of that call: question id -> score
  selected,   \* selected_questions
  idx,        \* position in selected_questions of the question being presented
  answer,     \* (is_correct, response_time) returned by present_question
  stats,      \* session_stats
  labeled_options, \* present_question: the shuffled options, in the order of their labels
  typed_input, \* present_question: user_input, what the learner typed
  history,    \* history variable: question id -> the response times of its committed updates
  stored,     \* ingest.py: the question_text of the committed rows of the questions table
  added,      \* ingest.py: the question_text of the rows added to the store session, not committed
  ingest_log  \* ingest.py: the last call of the ingestion and what it logged

ingest_vars == <<stored, added, ingest_log>>

vars == <<now, perf, pc, args, scored, selected, idx, answer, stats,
          labeled_options, typed_input, history, ingest_vars>>

HasPerf(q) == q \in DOMAIN perf

\* ------------------------------------------- SessionManager.calculate_score
\* days since the last review, after min(..., max_days) (session.py 50-59)
time_since_last_review(p, cfg, clock) ==
  LET since == clock - p.last_seen
  IN  IF since < cfg.max_days THEN since ELSE cfg.max_days

time_factor(p, cfg, clock) == Rat(time_since_last_review(p, cfg, clock), cfg.max_days)

\* the correctness part of the trend factor (session.py 74-79)
change_correctness(p) ==
  IF p.times_seen > 1 /\ p.previous_times_correct > 0
    THEN RSub(Rat(p.times_correct, p.times_seen),
              Rat(p.previous_times_correct, p.times_seen - 1))
    ELSE Zero

calculate_score(p, cfg, clock) ==
  LET avg_response_time == p.average_response_time
      correctness_factor == Rat(1, p.times_correct + 1)
      response_time_factor == RDiv(avg_response_time, IntR(cfg.max_response_time))
      rank_factor == p.current_rank
      change_response_time ==
        IF p.times_seen > 1 /\ RLt(Zero, p.previous_average_response_time)
          THEN RDiv(RSub(p.previous_average_response_time, avg_response_time),
                    RAdd(p.previous_average_response_time, IntR(1)))
          ELSE Zero
      trend_factor == RAdd(change_correctness(p), change_response_time)
  IN  RAdd(RSub(RAdd(RAdd(RMul(correctness_factor, cfg.weight_correct),
                          RMul(response_time_factor, cfg.weight_response_time)),
                     RMul(time_factor(p, cfg, clock), cfg.weight_time)),
                RMul(rank_factor, cfg.weight_rank)),
           RMul(trend_factor, cfg.weight_trend))

\* ---------------------------------------- SessionManager.calculate_interval
\* floor(log2(k) * 10^6) for k = 1..32
Log2Micro ==
  <<0, 1000000, 1584962, 2000000, 2321928, 2584962, 2807354, 3000000,
    3169925, 3321928, 3459431, 3584962, 3700439, 3807354, 3906890, 4000000,
    4087462, 4169925, 4247927, 4321928, 4392317, 4459431, 4523561, 4584962,
    4643856, 4700439, 4754887, 4807354, 4857980, 4906890, 4954196, 5000000>>

\* k <= 2^r.  log2(k) is an integer or irrational; an irrational one lies
\* strictly between Log2Micro[k] and Log2Micro[k] + 1 millionths.
PowerOfTwoAtLeast(r, k) ==
  IF Log2Micro[k] % 1000000 = 0
    THEN RLe(Rat(Log2Micro[k], 1000000), r)
    ELSE RLe(Rat(Log2Micro[k] + 1, 1000000), r)

\* int(2 ** r) for r below 5: the largest k with k <= 2^r
RECURSIVE IntPow2From(_, _)
IntPow2From(r, k) ==
  IF k < Len(Log2Micro) /\ PowerOfTwoAtLeast(r, k + 1) THEN IntPow2From(r, k + 1) ELSE k

IntPow2(r) == IF RLt(r, Zero) THEN 0 ELSE IntPow2From(r, 1)

\* calculate_interval without the floor of one day
calculate_interval_unclamped(current_rank, correct, is_new) ==
  IF is_new THEN (IF correct THEN 3 ELSE 1)
  ELSE IF correct THEN IntPow2(current_rank)
  ELSE Trunc(RDiv(IntR(1), current_rank))

calculate_interval(current_rank, correct, is_new) ==
  IF is_new THEN (IF correct THEN 3 ELSE 1)
  ELSE LET days == IF correct THEN IntPow2(current_rank)
                   ELSE Trunc(RDiv(IntR(1), current_rank))
       IN  IF days < 1 THEN 1 ELSE days

\* ---------------------------------------- SessionManager.update_performance
\* NewPerformance with the column default of current_rank (models.py 42)
NewPerformance_default_rank(is_correct, response_time, clock) ==
  [last_seen |-> clock,
   times_seen |-> 1,
   times_correct |-> IF is_correct THEN 1 ELSE 0,
   times_incorrect |-> IF is_correct THEN 0 ELSE 1,
   average_response_time |-> IntR(response_time),
   next_review |-> clock + calculate_interval(IntR(1), is_correct, TRUE),
   current_rank |-> IntR(1),
   previous_times_correct |-> 0,
   previous_average_response_time |-> Zero]

\* the row created for a question answered for the first time
NewPerformance(is_correct, response_time, clock) ==
  [last_seen |-> clock,
   times_seen |-> 1,
   times_correct |-> IF is_correct THEN 1 ELSE 0,
   times_incorrect |-> IF is_correct THEN 0 ELSE 1,
   average_response_time |-> IntR(response_time),
   next_review |-> clock + calculate_interval(IntR(1), is_correct, TRUE),
   current_rank |-> IF is_correct THEN Rat(8, 10) ELSE Rat(12, 10),
   previous_times_correct |-> 0,
   previous_average_response_time |-> Zero]

\* the rank after an answer, from the row's counters after their increment
AdjustedRank(rank, is_correct, correctness_ratio, response_time_improvement) ==
  IF is_correct
    THEN RMax(Rat(1, 10),
              RSub(rank, RMul(Rat(1, 10),
                              RAdd(RAdd(IntR(1), correctness_ratio),
                                   response_time_improvement))))
    ELSE RMin(IntR(2),
              RAdd(rank, RMul(Rat(1, 10), RSub(IntR(2), correctness_ratio))))

\* the row of a question answered before, after one more answer
UpdatedPerformance(p, is_correct, response_time, clock) ==
  LET previous_times_correct == p.times_correct
      previous_average == p.average_response_time
      times_seen == p.times_seen + 1
      times_correct == IF is_correct THEN p.times_correct + 1 ELSE p.times_correct
      times_incorrect == IF is_correct THEN p.times_incorrect ELSE p.times_incorrect + 1
      average == RDiv(RAdd(RMul(p.average_response_time, IntR(times_seen - 1)),
                           IntR(response_time)),
                      IntR(times_seen))
      correctness_ratio == Rat(times_correct, times_seen)
      response_time_improvement ==
        IF RLt(Zero, previous_average)
          THEN RDiv(RSub(previous_average, average), previous_average)
          ELSE Zero
      rank == AdjustedRank(p.current_rank, is_correct, correctness_ratio,
                           response_time_improvement)
  IN  [last_seen |-> clock,
       times_seen |-> times_seen,
       times_correct |-> times_correct,
       times_incorrect |-> times_incorrect,
       average_response_time |-> average,
       next_review |-> clock + calculate_interval(rank, is_correct, FALSE),
       current_rank |-> rank,
       previous_times_correct |-> previous_times_correct,
       previous_average_response_time |-> previous_average]

\* ------------------------------------------ SessionManager.select_questions
Lower(c) ==
  CASE c = "A" -> "a" [] c = "B" -> "b" [] c = "X" -> "x" [] c = "Y" -> "y"
    [] OTHER -> c

\* SQL LIKE on lower-cased operands: % matches any run, _ any one character
RECURSIVE LikeMatch(_, _)
LikeMatch(pattern, text) ==
  IF pattern = <<>> THEN text = <<>>
  ELSE IF Head(pattern) = "%"
    THEN LikeMatch(Tail(pattern), text)
         \/ (text # <<>> /\ LikeMatch(pattern, Tail(text)))
  ELSE /\ text # <<>>
       /\ (Head(pattern) = "_" \/ Lower(Head(pattern)) = Lower(Head(text)))
       /\ LikeMatch(Tail(pattern), Tail(text))

\* column.ilike(f"%{filter}%"); a NULL column matches nothing
ILikeContains(column, filter) ==
  column # NoText /\ LikeMatch(<<"%">> \o filter \o <<"%">>, column)

\* Candidates without the sub_subject filter
Candidates_subject_only(subject, sub_subject) ==
  {q \in QIds :
     subject = NoText \/ subject = <<>> \/ ILikeContains(Question(q).subject, subject)}

\* the rows the query returns: a filter that is None or empty is not applied
Candidates(subject, sub_subject) ==
  {q \in QIds :
     /\ (subject = NoText \/ subject = <<>>
         \/ ILikeContains(Question(q).subject, subject))
     /\ (sub_subject = NoText \/ sub_subject = <<>>
         \/ ILikeContains(Question(q).sub_subject, sub_subject))}

\* the orders in which query.all() may enumerate a set of rows, and the
\* results random.shuffle may leave
Enumerations(S) ==
  {e \in [1..Cardinality(S) -> S] : \A i, j \in DOMAIN e : e[i] = e[j] => i = j}

\* ScoreOf scoring a question without a row as a row of column defaults
ScoreOf_default_row(q, cfg) ==
  calculate_score(IF HasPerf(q) THEN perf[q]
                  ELSE [last_seen |-> now, times_seen |-> 0, times_correct |-> 0,
                        times_incorrect |-> 0, average_response_time |-> Zero,
                        next_review |-> now, current_rank |-> IntR(1),
                        previous_times_correct |-> 0,
                        previous_average_response_time |-> Zero],
                  cfg, now)

\* the score select_questions gives a candidate
ScoreOf(q, cfg) ==
  IF HasPerf(q) THEN calculate_score(perf[q], cfg, now) ELSE Zero

\* list.sort(key = score): a stable sort, ascending
\* an insertion that puts x before the elements of equal score
RECURSIVE InsertByScore_before_ties(_, _, _)
InsertByScore_before_ties(sorted, x, score) ==
  IF sorted = <<>> THEN <<x>>
  ELSE IF RLe(score[x], score[Head(sorted)]) THEN <<x>> \o sorted
  ELSE <<Head(sorted)>> \o InsertByScore_before_ties(Tail(sorted), x, score)

RECURSIVE InsertByScore(_, _, _)
InsertByScore(sorted, x, score) ==
  IF sorted = <<>> THEN <<x>>
  ELSE IF RLt(score[x], score[Head(sorted)]) THEN <<x>> \o sorted
  ELSE <<Head(sorted)>> \o InsertByScore(Tail(sorted), x, score)

RECURSIVE SortByScore(_, _)
SortByScore(list, score) ==
  IF list = <<>> THEN <<>>
  ELSE InsertByScore(SortByScore(SubSeq(list, 1, Len(list) - 1), score),
                     list[Len(list)], score)

\* list[:n]
SlicePrefix(list, n) ==
  LET stop == IF n >= 0 THEN (IF n < Len(list) THEN n ELSE Len(list))
              ELSE (IF Len(list) + n > 0 THEN Len(list) + n ELSE 0)
  IN  SubSeq(list, 1, stop)

\* select_questions without the sort
select_questions_unsorted(questions, score, num_questions, random_selection, shuffled) ==
  IF random_selection
    THEN SlicePrefix(shuffled, num_questions)
    ELSE SlicePrefix(questions, num_questions)

\* the list select_questions returns for the enumeration order `questions`;
\* `shuffled` is what random.shuffle leaves when random_selection is set
select_questions(questions, score, num_questions, random_selection, shuffled) ==
  IF random_selection
    THEN SlicePrefix(shuffled, num_questions)
    ELSE SlicePrefix(SortByScore(questions, score), num_questions)

\* ------------------------------------------ SessionManager.present_question
Whitespace == {" "}
Artifacts == {"\"", "'", "[", "]", "\\"}

\* str.strip(chars)
RECURSIVE LStrip(_, _)
LStrip(text, chars) ==
  IF text # <<>> /\ Head(text) \in chars THEN LStrip(Tail(text), chars) ELSE text

RECURSIVE RStrip(_, _)
RStrip(text, chars) ==
  IF text # <<>> /\ text[Len(text)] \in chars
    THEN RStrip(SubSeq(text, 1, Len(text) - 1), chars) ELSE text

Strip(text, chars) == RStrip(LStrip(text, chars), chars)

\* option.strip().strip('"\'[]\\')
Normalize(text) == Strip(Strip(text, Whitespace), Artifacts)

option_labels == <<"A", "B", "C", "D", "E", "F", "G", "H">>

\* what the learner may type, after .strip().upper()
UserInputs == {"A", "B", "C", "D"}

\* the results random.shuffle may leave of the options
ShuffledOptions(options) ==
  {[i \in 1..Len(options) |-> options[e[i]]] : e \in Enumerations(1..Len(options))}

valid_labels(shuffled_options) ==
  {option_labels[i] : i \in 1..(IF Len(shuffled_options) < Len(option_labels)
                                  THEN Len(shuffled_options) ELSE Len(option_labels))}

\* dict(labeled_options).get(user_input)
selected_option(shuffled_options, user_input) ==
  shuffled_options[CHOOSE i \in 1..Len(shuffled_options) : option_labels[i] = user_input]

\* is_correct_answer that looks the label up in the stored order of the options
is_correct_answer_unshuffled(q, shuffled_options, user_input) ==
  Normalize(selected_option(Question(q).options, user_input))
    = Normalize(Question(q).correct_option)

is_correct_answer(q, shuffled_options, user_input) ==
  Normalize(selected_option(shuffled_options, user_input))
    = Normalize(Question(q).correct_option)

\* ------------------------------------------------ SessionManager.start_session
NoArgs ==
  [num_questions |-> 0, subject |-> NoText, sub_subject |-> NoText,
   random_selection |-> FALSE]
NoAnswer == [is_correct |-> FALSE, response_time |-> 0]
NoStats ==
  [total_questions |-> 0, correct_answers |-> 0, total_time |-> 0,
   by_subject |-> <<>>, questions_data |-> <<>>]

SubjectFilters == {NoText, <<"a">>}
SubSubjectFilters == {NoText, <<"X">>}
Limits == (-1)..MaxLimit

NoCall == [call |-> "none"]

Init ==
  /\ now = 0
  /\ perf = <<>>
  /\ pc = "idle"
  /\ args = NoArgs
  /\ scored = <<>>
  /\ selected = <<>>
  /\ idx = 0
  /\ answer = NoAnswer
  /\ stats = NoStats
  /\ labeled_options = <<>>
  /\ typed_input = ""
  /\ history = <<>>
  /\ stored = <<>>
  /\ added = <<>>
  /\ ingest_log = NoCall

\* the number of answers committed so far
RECURSIVE SumSeen(_, _)
SumSeen(table, qs) ==
  IF qs = {} THEN 0
  ELSE LET q == CHOOSE x \in qs : TRUE
       IN  table[q].times_seen + SumSeen(table, qs \ {q})

TotalSeen(table) == SumSeen(table, DOMAIN table)

\* start_session calls select_questions (session.py 353-358)
SelectQuestions ==
  /\ pc = "idle"
  /\ \E cfg \in Configs, num_questions \in Limits, subject \in SubjectFilters,
        sub_subject \in SubSubjectFilters, random_selection \in BOOLEAN :
       \* each value is computed once: the pool, the scores of its questions,
       \* questions (the order the query returns the pool in and, on a random
       \* selection, the order random.shuffle leaves: any order, either way)
       \* and the result of select_questions
       \E pool \in {Candidates(subject, sub_subject)} :
         \E score \in {[q \in pool |-> ScoreOf(q, cfg)]} :
           \E questions \in Enumerations(pool) :
             \E result \in {select_questions(questions, score, num_questions,
                                             random_selection, questions)} :
               /\ TotalSeen(perf) + Len(result) <= MaxAnswers
               /\ scored' = score
               /\ selected' = result
               /\ args' = [num_questions |-> num_questions, subject |-> subject,
                           sub_subject |-> sub_subject,
                           random_selection |-> random_selection]
  /\ pc' = "selected"
  /\ UNCHANGED <<now, perf, idx, answer, stats, labeled_options, typed_input, history, ingest_vars>>

\* "No questions available": start_session returns (session.py 360-362)
NoQuestions ==
  /\ pc = "selected"
  /\ selected = <<>>
  /\ pc' = "idle"
  /\ args' = NoArgs
  /\ scored' = <<>>
  /\ UNCHANGED <<now, perf, selected, idx, answer, stats, labeled_options, typed_input, history, ingest_vars>>

\* the session statistics are initialised (session.py 364-373)
BeginSession ==
  /\ pc = "selected"
  /\ selected # <<>>
  /\ stats' = [NoStats EXCEPT !.total_questions = Len(selected)]
  /\ idx' = 1
  /\ pc' = "present"
  /\ args' = NoArgs
  /\ scored' = <<>>
  /\ UNCHANGED <<now, perf, selected, answer, labeled_options, typed_input, history, ingest_vars>>

\* present_question with an input among the labels shown (session.py 144-216)
PresentQuestion ==
  /\ pc = "present"
  /\ \E shuffled_options \in ShuffledOptions(Question(selected[idx]).options),
        user_input \in UserInputs, response_time \in ResponseTimes :
       /\ user_input \in valid_labels(shuffled_options)
       /\ answer' = [is_correct |-> is_correct_answer(selected[idx], shuffled_options,
                                                      user_input),
                     response_time |-> response_time]
  /\ pc' = "update"
  /\ UNCHANGED <<now, perf, args, scored, selected, idx, stats, labeled_options, typed_input, history, ingest_vars>>

\* present_question with any other input: the same question is asked again
InvalidInput ==
  /\ pc = "present"
  /\ \E shuffled_options \in ShuffledOptions(Question(selected[idx]).options),
        user_input \in UserInputs :
       user_input \notin valid_labels(shuffled_options)
  /\ UNCHANGED vars

\* RecordAnswer that counts a subject's questions only when answered correctly
RecordAnswer_correct_only(s, q, a) ==
  LET subject == Question(q).subject
      old == IF subject \in DOMAIN s.by_subject THEN s.by_subject[subject]
             ELSE [total |-> 0, correct |-> 0, times |-> <<>>]
      new == [total |-> old.total + (IF a.is_correct THEN 1 ELSE 0),
              correct |-> old.correct + (IF a.is_correct THEN 1 ELSE 0),
              times |-> Append(old.times, a.response_time)]
  IN  [total_questions |-> s.total_questions,
       correct_answers |-> s.correct_answers + (IF a.is_correct THEN 1 ELSE 0),
       total_time |-> s.total_time + a.response_time,
       by_subject |-> [k \in DOMAIN s.by_subject \cup {subject} |->
                         IF k = subject THEN new ELSE s.by_subject[k]],
       questions_data |-> Append(s.questions_data,
                                 [subject |-> subject, question |-> q,
                                  correct |-> a.is_correct,
                                  response_time |-> a.response_time])]

\* the statistics of one answered question (session.py 380-403)
RecordAnswer(s, q, a) ==
  LET subject == Question(q).subject
      old == IF subject \in DOMAIN s.by_subject THEN s.by_subject[subject]
             ELSE [total |-> 0, correct |-> 0, times |-> <<>>]
      new == [total |-> old.total + 1,
              correct |-> old.correct + (IF a.is_correct THEN 1 ELSE 0),
              times |-> Append(old.times, a.response_time)]
  IN  [total_questions |-> s.total_questions,
       correct_answers |-> s.correct_answers + (IF a.is_correct THEN 1 ELSE 0),
       total_time |-> s.total_time + a.response_time,
       by_subject |-> [k \in DOMAIN s.by_subject \cup {subject} |->
                         IF k = subject THEN new ELSE s.by_subject[k]],
       questions_data |-> Append(s.questions_data,
                                 [subject |-> subject, question |-> q,
                                  correct |-> a.is_correct,
                                  response_time |-> a.response_time])]

\* update_performance that counts an incorrect answer as seen only
update_performance_uncounted(table, q, is_correct, response_time, clock) ==
  [k \in DOMAIN table \cup {q} |->
     IF k # q THEN table[k]
     ELSE IF q \in DOMAIN table
       THEN [UpdatedPerformance(table[q], is_correct, response_time, clock)
               EXCEPT !.times_incorrect = table[q].times_incorrect]
       ELSE NewPerformance(is_correct, response_time, clock)]

\* update_performance that takes the trend snapshot after the counters moved
update_performance_late_snapshot(table, q, is_correct, response_time, clock) ==
  [k \in DOMAIN table \cup {q} |->
     IF k # q THEN table[k]
     ELSE IF q \in DOMAIN table
       THEN LET new == UpdatedPerformance(table[q], is_correct, response_time, clock)
            IN  [new EXCEPT !.previous_times_correct = new.times_correct,
                            !.previous_average_response_time =
                               new.average_response_time]
       ELSE NewPerformance(is_correct, response_time, clock)]

\* update_performance that averages over the count before its increment
update_performance_stale_count(table, q, is_correct, response_time, clock) ==
  [k \in DOMAIN table \cup {q} |->
     IF k # q THEN table[k]
     ELSE IF q \in DOMAIN table
       THEN [UpdatedPerformance(table[q], is_correct, response_time, clock)
               EXCEPT !.average_response_time =
                 RDiv(RAdd(RMul(table[q].average_response_time,
                                IntR(table[q].times_seen - 1)),
                           IntR(response_time)),
                      IntR(table[q].times_seen))]
       ELSE NewPerformance(is_correct, response_time, clock)]

\* update_performance that writes a fresh row over the one it found
update_performance_recreated(table, q, is_correct, response_time, clock) ==
  [k \in DOMAIN table \cup {q} |->
     IF k # q THEN table[k]
     ELSE NewPerformance(is_correct, response_time, clock)]

\* update_performance that schedules the review from the rank it found
update_performance_prior_rank(table, q, is_correct, response_time, clock) ==
  [k \in DOMAIN table \cup {q} |->
     IF k # q THEN table[k]
     ELSE IF q \in DOMAIN table
       THEN [UpdatedPerformance(table[q], is_correct, response_time, clock)
               EXCEPT !.next_review =
                 clock + calculate_interval(table[q].current_rank, is_correct, FALSE)]
       ELSE NewPerformance(is_correct, response_time, clock)]

\* the table after update_performance commits (session.py 231-296)
update_performance(table, q, is_correct, response_time, clock) ==
  [k \in DOMAIN table \cup {q} |->
     IF k # q THEN table[k]
     ELSE IF q \in DOMAIN table
       THEN UpdatedPerformance(table[q], is_correct, response_time, clock)
       ELSE NewPerformance(is_correct, response_time, clock)]

\* the "Questions to Review" of the report (session.py 462-468)
incorrect_questions(s) == SelectSeq(s.questions_data, LAMBDA d : ~d.correct)

\* a turn that leaves the remaining list in the reverse order
NextQuestion_reordered ==
  /\ stats' = RecordAnswer(stats, selected[idx], answer)
  /\ idx' = idx + 1
  /\ pc' = IF idx = Len(selected) THEN "report" ELSE "present"
  /\ selected' = [i \in 1..Len(selected) |-> selected[Len(selected) + 1 - i]]
  /\ UNCHANGED <<now, args, scored, answer, labeled_options, typed_input, ingest_vars>>

\* the rest of one turn of the loop of start_session (session.py 378-403)
NextQuestion ==
  /\ stats' = RecordAnswer(stats, selected[idx], answer)
  /\ idx' = idx + 1
  /\ pc' = IF idx = Len(selected) THEN "report" ELSE "present"
  /\ UNCHANGED <<now, args, scored, selected, answer, labeled_options, typed_input, ingest_vars>>

UpdatePerformance ==
  /\ pc = "update"
  /\ perf' = update_performance(perf, selected[idx], answer.is_correct,
                                answer.response_time, now)
  /\ history' = [k \in DOMAIN history \cup {selected[idx]} |->
                   IF k # selected[idx] THEN history[k]
                   ELSE IF k \in DOMAIN history
                     THEN Append(history[k], answer.response_time)
                     ELSE <<answer.response_time>>]
  /\ NextQuestion

\* a failure that leaves the changes made before it in the table
UpdatePerformanceFails_half_written ==
  /\ pc = "update"
  /\ perf' = update_performance(perf, selected[idx], answer.is_correct,
                                answer.response_time, now)
  /\ history' = history
  /\ NextQuestion

\* the store raises: the except branches roll back and log (session.py 307-312)
UpdatePerformanceFails ==
  /\ pc = "update"
  /\ perf' = perf
  /\ history' = history
  /\ NextQuestion

\* _display_session_report, then start_session returns (session.py 406)
DisplaySessionReport ==
  /\ pc = "report"
  /\ pc' = "idle"
  /\ args' = NoArgs
  /\ scored' = <<>>
  /\ selected' = <<>>
  /\ idx' = 0
  /\ answer' = NoAnswer
  /\ stats' = NoStats
  /\ UNCHANGED <<now, perf, labeled_options, typed_input, history, ingest_vars>>

\* time passes
Tick ==
  /\ now < MaxDay
  /\ now' = now + 1
  /\ UNCHANGED <<perf, pc, args, scored, selected, idx, answer, stats, labeled_options, typed_input, history, ingest_vars>>

\* the questions of this session whose answer has been processed
Answered == {selected[i] : i \in 1..(idx - 1)}

\* leaving the session with the rows of its answered questions dropped,
\* as if the session were one transaction rolled back as a unit
Quit_rolled_back ==
  /\ pc = "present"
  /\ pc' = "quit"
  /\ perf' = [q \in DOMAIN perf \ Answered |-> perf[q]]
  /\ UNCHANGED <<now, args, scored, selected, idx, answer, stats,
                 labeled_options, typed_input, history, ingest_vars>>

\* the learner leaves at the prompt: input() raises KeyboardInterrupt or
\* EOFError, start_session is abandoned and main closes the store session;
\* every update was committed in its own turn (session.py 296)
Quit ==
  /\ pc = "present"
  /\ pc' = "quit"
  /\ UNCHANGED <<now, perf, args, scored, selected, idx, answer, stats,
                 labeled_options, typed_input, history, ingest_vars>>

\* the application is started again on the same store
Restart ==
  /\ pc = "quit"
  /\ pc' = "idle"
  /\ args' = NoArgs
  /\ scored' = <<>>
  /\ selected' = <<>>
  /\ idx' = 0
  /\ answer' = NoAnswer
  /\ stats' = NoStats
  /\ UNCHANGED <<now, perf, labeled_options, typed_input, history, ingest_vars>>

Next ==
  \/ SelectQuestions
  \/ NoQuestions
  \/ BeginSession
  \/ PresentQuestion
  \/ InvalidInput
  \/ UpdatePerformance
  \/ UpdatePerformanceFails
  \/ DisplaySessionReport
  \/ Quit
  \/ Restart
  \/ Tick

Spec == Init /\ [][Next]_vars

\* ------------------------------------------------ the clock is set back
\* datetime.utcnow() reads the wall clock, which an operator or a time
\* synchronisation may set back
SetClockBack ==
  /\ now > 0
  /\ now' = now - 1
  /\ UNCHANGED <<perf, pc, args, scored, selected, idx, answer, stats,
                 labeled_options, typed_input, history, ingest_vars>>

ClockNext ==
  \/ Next
  \/ SetClockBack

ClockSpec == Init /\ [][ClockNext]_vars

\* ------------------------------ present_question, one statement at a time
\* a session of one or two questions is about to present its first question
InitPresent ==
  /\ now = 0
  /\ perf = <<>>
  /\ pc = "present"
  /\ args = NoArgs
  /\ scored = <<>>
  /\ selected \in {<<q>> : q \in QIds}
                   \cup {s \in {<<p, q>> : p \in QIds, q \in QIds} : s[1] # s[2]}
  /\ idx = 1
  /\ answer = NoAnswer
  /\ stats = [NoStats EXCEPT !.total_questions = Len(selected)]
  /\ labeled_options = <<>>
  /\ typed_input = ""
  /\ history = <<>>
  /\ stored = <<>>
  /\ added = <<>>
  /\ ingest_log = NoCall

\* the options are shuffled, labelled and displayed (session.py 180-190)
ShowOptions ==
  /\ pc = "present"
  /\ labeled_options' \in ShuffledOptions(Question(selected[idx]).options)
  /\ pc' = "input"
  /\ UNCHANGED <<now, perf, args, scored, selected, idx, answer, stats,
                 typed_input, history, ingest_vars>>

\* the learner types something (session.py 193-196)
ReadInput ==
  /\ pc = "input"
  /\ typed_input' \in UserInputs
  /\ pc' = "validate"
  /\ UNCHANGED <<now, perf, args, scored, selected, idx, answer, stats,
                 labeled_options, history, ingest_vars>>

\* an invalid input counted as a wrong answer
RejectInput_as_wrong_answer ==
  /\ pc = "validate"
  /\ typed_input \notin valid_labels(labeled_options)
  /\ \E response_time \in ResponseTimes :
       answer' = [is_correct |-> FALSE, response_time |-> response_time]
  /\ pc' = "update"
  /\ labeled_options' = <<>>
  /\ typed_input' = ""
  /\ UNCHANGED <<now, perf, args, scored, selected, idx, stats, history, ingest_vars>>

\* the input is not a label shown: present_question calls itself for the
\* same question (session.py 199-202)
RejectInput ==
  /\ pc = "validate"
  /\ typed_input \notin valid_labels(labeled_options)
  /\ pc' = "present"
  /\ labeled_options' = <<>>
  /\ typed_input' = ""
  /\ UNCHANGED <<now, perf, args, scored, selected, idx, answer, stats, history, ingest_vars>>

\* the input is a label shown: the answer is evaluated and returned
\* (session.py 204-216)
AcceptInput ==
  /\ pc = "validate"
  /\ typed_input \in valid_labels(labeled_options)
  /\ \E response_time \in ResponseTimes :
       answer' = [is_correct |-> is_correct_answer(selected[idx], labeled_options,
                                                    typed_input),
                  response_time |-> response_time]
  /\ pc' = "update"
  /\ labeled_options' = <<>>
  /\ typed_input' = ""
  /\ UNCHANGED <<now, perf, args, scored, selected, idx, stats, history, ingest_vars>>

PresentNext ==
  \/ ShowOptions
  \/ ReadInput
  \/ RejectInput
  \/ AcceptInput
  \/ UpdatePerformance
  \/ UpdatePerformanceFails
  \/ DisplaySessionReport

PresentSpec == InitPresent /\ [][PresentNext]_vars

\* ------------------------------------------------------------- ingest.py
\* The ingestion fills the questions table; the sessions above run on the fixed
\* rows of QuestionRows.  A question of the input is its question_text and
\* whether all its mandatory fields are present.
Texts == 1..MaxTexts
InputQuestions == [question_text : Texts, complete : BOOLEAN]
BulkInputs ==
  UNION {[1..n -> InputQuestions] : n \in 1..MaxBatch}

\* Ingest.__init__: the default batch size and a batch size of one
DefaultBatchSize == 100
BatchSizes == {1, DefaultBatchSize}

SessionVars ==
  <<now, perf, pc, args, scored, selected, idx, answer, stats,
    labeled_options, typed_input, history>>

Occurs(list, x) == \E i \in 1..Len(list) : list[i] = x

\* the unique constraint on question_text holds for these rows (models.py 17)
NoDuplicates(list) == \A i, j \in 1..Len(list) : list[i] = list[j] => i = j

\* ingest_single: the query flushes the rows added before, so the duplicate
\* check sees them (ingest.py 33-67)
IngestSingle ==
  \E q \in InputQuestions :
    /\ added' = IF q.complete /\ ~Occurs(stored \o added, q.question_text)
                  THEN Append(added, q.question_text) ELSE added
    /\ stored' = stored
    /\ ingest_log' = [call |-> "single", input |-> <<q>>]
    /\ UNCHANGED SessionVars

\* the caller of ingest_single commits (collector.py 122)
Commit ==
  /\ added # <<>>
  /\ stored' = stored \o added
  /\ added' = <<>>
  /\ ingest_log' = [call |-> "commit"]
  /\ UNCHANGED SessionVars

\* bulk_save_objects and commit of the collected batch (ingest.py 137-147):
\* the INSERTs fail on the unique constraint if the committed rows, the rows
\* added before and the batch share a text, and the except branch rolls the
\* open transaction back
FlushBatch(table, pending, new_questions) ==
  IF NoDuplicates(table \o pending \o new_questions)
    THEN [stored |-> table \o pending \o new_questions, added |-> <<>>, failed |-> FALSE]
    ELSE [stored |-> table, added |-> <<>>, failed |-> TRUE]

\* the loop of ingest_bulk from question i of the input on (ingest.py 97-147)
RECURSIVE BulkFrom(_, _, _, _, _, _, _)
BulkFrom(input, i, batch_size, table, pending, new_questions, counts) ==
  IF i > Len(input)
    THEN IF new_questions = <<>>
           THEN [stored |-> table, added |-> pending, failed |-> FALSE, counts |-> counts]
           ELSE FlushBatch(table, pending, new_questions) @@ [counts |-> counts]
  ELSE LET q == input[i]
       IN  IF ~q.complete
             THEN BulkFrom(input, i + 1, batch_size, table, pending, new_questions,
                           [counts EXCEPT !.incomplete = @ + 1])
           ELSE IF Occurs(table \o pending, q.question_text)
             THEN BulkFrom(input, i + 1, batch_size, table, pending, new_questions,
                           [counts EXCEPT !.duplicate = @ + 1])
           ELSE LET batch == Append(new_questions, q.question_text)
                    counted == [counts EXCEPT !.ingested = @ + 1]
                IN  IF Len(batch) >= batch_size
                      THEN LET flushed == FlushBatch(table, pending, batch)
                           IN  IF flushed.failed
                                 THEN flushed @@ [counts |-> counted]
                                 ELSE BulkFrom(input, i + 1, batch_size, flushed.stored,
                                               flushed.added, <<>>, counted)
                      ELSE BulkFrom(input, i + 1, batch_size, table, pending, batch,
                                    counted)

ingest_bulk(input, batch_size, table, pending) ==
  BulkFrom(input, 1, batch_size, table, pending, <<>>,
           [ingested |-> 0, duplicate |-> 0, incomplete |-> 0])

IngestBulk ==
  \E input \in BulkInputs, batch_size \in BatchSizes :
    \E result \in {ingest_bulk(input, batch_size, stored, added)} :
      /\ stored' = result.stored
      /\ added' = result.added
      /\ ingest_log' = [call |-> "bulk", input |-> input, batch_size |-> batch_size,
                        failed |-> result.failed, counts |-> result.counts]
      /\ UNCHANGED SessionVars

IngestNext ==
  \/ IngestSingle
  \/ Commit
  \/ IngestBulk

IngestSpec == Init /\ [][IngestNext]_vars

\* ================================================================ claims

\* C1: after any sequence of update_performance calls every record's
\* current_rank lies in [0.1, 2.0], after a correct and after an incorrect
\* answer.  (The code caps the rank only on the incorrect branch.)
C1_RankWithinBounds ==
  \A q \in DOMAIN perf :
    RLe(Rat(1, 10), perf[q].current_rank) /\ RLe(perf[q].current_rank, IntR(2))

\* C2: every stored performance record has times_seen = times_correct +
\* times_incorrect with the three counters >= 0, after creation and after
\* every later update.
C2_CountersAddUp ==
  \A q \in DOMAIN perf :
    /\ perf[q].times_seen >= 0
    /\ perf[q].times_correct >= 0
    /\ perf[q].times_incorrect >= 0
    /\ perf[q].times_seen = perf[q].times_correct + perf[q].times_incorrect

C2_Witness ==
  \E q \in DOMAIN perf :
    perf[q].times_seen >= 3 /\ perf[q].times_correct > 0 /\ perf[q].times_incorrect > 0

\* C3: with random_selection false (and a limit >= 0), select_questions
\* places every candidate without a performance record before every
\* candidate with one: no returned question with a record precedes a
\* returned question without one, and no candidate without a record is left
\* out while a candidate with a record is returned.
C3_NewBeforeSeen ==
  (pc = "selected" /\ ~args.random_selection /\ args.num_questions >= 0) =>
    /\ \A i, j \in DOMAIN selected :
         (HasPerf(selected[i]) /\ ~HasPerf(selected[j])) => j < i
    /\ \A q \in DOMAIN scored :
         (~HasPerf(q) /\ \A i \in DOMAIN selected : selected[i] # q)
           => \A i \in DOMAIN selected : ~HasPerf(selected[i])

\* C4: for every pool, every integer limit and both values of
\* random_selection, select_questions returns at most limit items.
C4_AtMostLimit ==
  pc = "selected" => Len(selected) <= args.num_questions

\* C5: if limit <= 0 or the candidate pool is empty, select_questions
\* returns an empty list (and start_session then presents nothing).
C5_EmptyWhenNothingToStudy ==
  (pc = "selected"
     /\ (args.num_questions <= 0 \/ Candidates(args.subject, args.sub_subject) = {}))
    => selected = <<>>

\* C6: every question select_questions returns matches the subject and
\* sub_subject filters (its column contains the filter, ignoring case; a
\* filter that is None is not applied), and none is returned twice.
ContainsIgnoringCase(column, filter) ==
  /\ column # NoText
  /\ \E k \in 0..(Len(column) - Len(filter)) :
       \A i \in 1..Len(filter) : Lower(column[k + i]) = Lower(filter[i])

C6_SelectedWithinPool ==
  pc = "selected" =>
    /\ \A i \in DOMAIN selected :
         /\ selected[i] \in QIds
         /\ args.subject # NoText
              => ContainsIgnoringCase(Question(selected[i]).subject, args.subject)
         /\ args.sub_subject # NoText
              => ContainsIgnoringCase(Question(selected[i]).sub_subject, args.sub_subject)
    /\ \A i, j \in DOMAIN selected : selected[i] = selected[j] => i = j

C6_Witness ==
  /\ pc = "selected"
  /\ args.sub_subject # NoText
  /\ args.subject = NoText
  /\ selected # <<>>
  /\ \E q \in QIds : Question(q).sub_subject = NoText

\* C7: with random_selection false and pairwise distinct scores,
\* select_questions returns the same list for every order in which the
\* store enumerates the candidates.
DistinctScores == \A p, q \in DOMAIN scored : scored[p] = scored[q] => p = q

C7_OrderIndependent ==
  (pc = "selected" /\ ~args.random_selection /\ DistinctScores) =>
    \A e \in Enumerations(DOMAIN scored) :
      select_questions(e, scored, args.num_questions, FALSE, e) = selected

C7_Witness ==
  /\ pc = "selected"
  /\ ~args.random_selection
  /\ DistinctScores
  /\ Len(selected) >= 2
  /\ selected[1] > selected[2]
  /\ HasPerf(selected[2])

\* C8: calculate_interval returns an integer >= 1 for every rank in
\* [0.1, 2.0], both outcomes and both is_new values, so every next_review is
\* a whole number of days >= 1 after the answer it was computed for.
RankGrid == {Rat(k, 20) : k \in 2..40}

C8_IntervalAtLeastOne ==
  /\ pc = "update" =>
       \A r \in RankGrid \cup {perf[q].current_rank : q \in DOMAIN perf} :
         \A correct, is_new \in BOOLEAN :
           calculate_interval(r, correct, is_new) \in Nat \ {0}
  /\ \A q \in DOMAIN perf : perf[q].next_review - perf[q].last_seen \in Nat \ {0}

C8_Witness ==
  \E q \in DOMAIN perf :
    /\ perf[q].times_seen >= 2
    /\ perf[q].times_correct = perf[q].previous_times_correct
    /\ RLt(IntR(1), perf[q].current_rank)
    /\ perf[q].next_review = perf[q].last_seen + 1

\* C9: during selection a question without a performance record gets the
\* score exactly 0, whatever the weights, max_response_time and max_days.
C9_NewScoresZero ==
  pc = "selected" =>
    \A q \in DOMAIN scored : ~HasPerf(q) => scored[q] = Zero

C9_Witness ==
  /\ pc = "selected"
  /\ \E q \in DOMAIN scored : ~HasPerf(q)
  /\ \E q \in DOMAIN scored : HasPerf(q) /\ scored[q] # Zero

\* C10: update_performance for a question without a record creates one with
\* times_seen 1, the counters set from the outcome, the response time as the
\* average, rank 0.8 if correct else 1.2, last_seen = now, next_review = now
\* + 3 days if correct else now + 1 day, and both previous_* equal to 0.
C10_FirstAnswerCreatesRecord ==
  [][\A q \in QIds :
       (pc = "update" /\ selected[idx] = q /\ ~HasPerf(q) /\ q \in DOMAIN perf') =>
         perf'[q] =
           [last_seen |-> now,
            times_seen |-> 1,
            times_correct |-> IF answer.is_correct THEN 1 ELSE 0,
            times_incorrect |-> IF answer.is_correct THEN 0 ELSE 1,
            average_response_time |-> IntR(answer.response_time),
            next_review |-> IF answer.is_correct THEN now + 3 ELSE now + 1,
            current_rank |-> IF answer.is_correct THEN Rat(4, 5) ELSE Rat(6, 5),
            previous_times_correct |-> 0,
            previous_average_response_time |-> Zero]]_vars

C10_Witness ==
  /\ now > 0
  /\ \E q, r \in DOMAIN perf :
       /\ perf[q].times_seen = 1 /\ perf[q].times_correct = 1 /\ perf[q].last_seen > 0
       /\ perf[r].times_seen = 1 /\ perf[r].times_incorrect = 1

\* a step in which update_performance commits the answer to a question that
\* already has a record
UpdatesExisting ==
  /\ pc = "update"
  /\ HasPerf(selected[idx])
  /\ perf' # perf

\* C11: an incorrect answer on an existing record adds one to times_seen and
\* to times_incorrect, leaves times_correct alone and never lowers
\* current_rank: the rank rises strictly from below 2.0 and stays 2.0 at the
\* cap.  (A rank above 2.0, left by a correct answer, is cut down to 2.0.)
C11_IncorrectNeverLowersRank ==
  [][(UpdatesExisting /\ ~answer.is_correct) =>
       LET old == perf[selected[idx]]
           new == perf'[selected[idx]]
       IN  /\ new.times_seen = old.times_seen + 1
           /\ new.times_incorrect = old.times_incorrect + 1
           /\ new.times_correct = old.times_correct
           /\ RLe(old.current_rank, new.current_rank)
           /\ (RLt(old.current_rank, IntR(2)) =>
                 RLt(old.current_rank, new.current_rank))
           /\ (old.current_rank = IntR(2) => new.current_rank = IntR(2))]_vars

\* C12: after an update of an existing record its previous_times_correct and
\* previous_average_response_time are the times_correct and the
\* average_response_time the record had just before that update.
C12_SnapshotsArePriorValues ==
  [][UpdatesExisting =>
       LET old == perf[selected[idx]]
           new == perf'[selected[idx]]
       IN  /\ new.previous_times_correct = old.times_correct
           /\ new.previous_average_response_time = old.average_response_time]_vars

\* a record updated at least once whose snapshot differs from its new values
C12_Witness ==
  \E q \in DOMAIN perf :
    /\ perf[q].times_seen >= 2
    /\ perf[q].previous_times_correct >= 1
    /\ perf[q].previous_times_correct # perf[q].times_correct
    /\ perf[q].previous_average_response_time # perf[q].average_response_time

\* C13: every update is committed in the turn of its answer, before the next
\* question is presented, and nothing later undoes it: a record changes only
\* by the update of its own question, and leaving the session after k
\* answers leaves the table as those k turns left it.
C13_CommittedUpdatesPersist ==
  [][/\ \A q \in DOMAIN perf :
          /\ q \in DOMAIN perf'
          /\ (perf'[q] # perf[q] => pc = "update" /\ selected[idx] = q)
     /\ (pc' = "quit" => perf' = perf)
     /\ (pc = "update" /\ history' # history =>
           /\ pc' \in {"present", "report"}
           /\ selected[idx] \in DOMAIN perf'
           /\ perf'[selected[idx]].last_seen = now
           /\ perf'[selected[idx]].times_seen = Len(history'[selected[idx]]))]_vars

\* the learner has left a session after at least one committed answer
C13_Witness ==
  /\ pc = "quit"
  /\ idx >= 2
  /\ HasPerf(selected[1])
  /\ Len(stats.questions_data) = idx - 1
  /\ history[selected[1]][Len(history[selected[1]])]
       = stats.questions_data[1].response_time

\* C14: when the store fails during a performance update the failure reaches
\* the caller of update_performance: start_session does not go on as after a
\* successful update.  (The code catches the failure, rolls back and logs.)
C14_FailureReachesCaller ==
  [][(pc = "update" /\ pc' # pc /\ perf' = perf) =>
       (pc' \notin {"present", "report"} /\ stats' = stats)]_vars

\* a question that can be asked: some option and a correct-option text
WellFormed(q) ==
  /\ Question(q).options # <<>>
  /\ Question(q).correct_option \notin {<<>>, NoText}

\* C15: a candidate with an empty option list or without a correct-option
\* text is skipped: select_questions never returns it and it is never
\* presented.
C15_MalformedSkipped ==
  /\ (pc = "selected" => \A i \in 1..Len(selected) : WellFormed(selected[i]))
  /\ (pc = "present" => WellFormed(selected[idx]))

RECURSIVE SumOf(_)
SumOf(times) == IF times = <<>> THEN 0 ELSE Head(times) + SumOf(Tail(times))

\* C19: after n committed updates of a question with response times r1..rn
\* its average_response_time is exactly (r1 + ... + rn) / n, and not negative.
C19_AverageIsMean ==
  \A q \in DOMAIN perf :
    /\ q \in DOMAIN history
    /\ perf[q].average_response_time = Rat(SumOf(history[q]), Len(history[q]))
    /\ RLe(Zero, perf[q].average_response_time)

\* a record of three answers whose times differ
C19_Witness ==
  \E q \in DOMAIN perf :
    /\ perf[q].times_seen = 3
    /\ history[q] = <<1, 60, 1>>
    /\ perf[q].average_response_time = Rat(62, 3)

\* C20: a record exists only after an answered attempt on its question, its
\* times_seen is the number of committed attempts and grows by exactly one
\* with each, and no step removes a record.
C20_RecordsOnlyGrow ==
  [][/\ \A q \in DOMAIN perf :
          /\ q \in DOMAIN perf'
          /\ perf'[q].times_seen \in {perf[q].times_seen, perf[q].times_seen + 1}
     /\ \A q \in DOMAIN perf' \ DOMAIN perf :
          /\ pc = "update" /\ selected[idx] = q
          /\ perf'[q].times_seen = 1
     /\ \A q \in DOMAIN perf' :
          /\ q \in DOMAIN history'
          /\ perf'[q].times_seen = Len(history'[q])
          /\ perf'[q].times_seen >= 1
     /\ (pc = "update" /\ history' # history =>
           perf'[selected[idx]].times_seen =
             (IF HasPerf(selected[idx]) THEN perf[selected[idx]].times_seen ELSE 0) + 1)]_vars

\* one question answered twice while another has no record
C20_Witness ==
  /\ \E q \in DOMAIN perf : perf[q].times_seen = 2 /\ Len(history[q]) = 2
  /\ \E q \in QIds : ~HasPerf(q)
  /\ pc = "present"

\* a step in which present_question returns the evaluation of a typed label
ReturnsAnswer == pc = "validate" /\ pc' = "update"

\* C16: an input that is not one of the labels shown is rejected: no answer
\* is evaluated, no record and no statistic changes, and the same question is
\* presented again; only a label shown yields an answer.
C16_InvalidInputRejected ==
  [][/\ (pc = "validate" /\ typed_input \notin valid_labels(labeled_options)) =>
          /\ pc' = "present"
          /\ UNCHANGED <<selected, idx, answer, perf, stats, history>>
     /\ ReturnsAnswer => typed_input \in valid_labels(labeled_options)]_vars

\* the learner typed a letter that labels none of the options shown
C16_Witness ==
  /\ pc = "validate"
  /\ labeled_options # <<>>
  /\ typed_input \notin valid_labels(labeled_options)

\* a display-label prefix: a label letter, a full stop and blanks
StripLabel(text) ==
  IF Len(text) >= 2 /\ text[2] = "."
       /\ \E i \in 1..Len(option_labels) : option_labels[i] = text[1]
    THEN LStrip(SubSeq(text, 3, Len(text)), Whitespace)
    ELSE text

\* the text left when surrounding whitespace, a display-label prefix and
\* surrounding quote, bracket and backslash characters are taken away
WithoutDecoration(text) == Normalize(StripLabel(Strip(text, Whitespace)))

\* C17: the chosen option counts as the canonical one whenever the two differ
\* only by surrounding whitespace, a display-label prefix such as "A. ", or
\* surrounding quote, bracket and backslash characters.  (The code strips
\* whitespace and those characters, never a label prefix.)
C17_DecorationIgnored ==
  [][ReturnsAnswer =>
       (WithoutDecoration(selected_option(labeled_options, typed_input))
          = WithoutDecoration(Question(selected[idx]).correct_option)
        => answer'.is_correct)]_vars

LabelIndex(label) == CHOOSE i \in 1..Len(option_labels) : option_labels[i] = label

\* C18: the answer is correct exactly when the text of the chosen option and
\* the canonical option are equal after the same normalisation of both; the
\* order the options were shown in and the label typed do not matter.
C18_ShuffleProof ==
  [][ReturnsAnswer =>
       LET q == selected[idx]
           chosen == labeled_options[LabelIndex(typed_input)]
       IN  /\ answer'.is_correct
                = (Normalize(chosen) = Normalize(Question(q).correct_option))
           /\ \A other \in ShuffledOptions(Question(q).options) :
                \A label \in valid_labels(other) :
                  other[LabelIndex(label)] = chosen =>
                    is_correct_answer(q, other, label) = answer'.is_correct]_vars

\* the correct option was shown at another place than it is stored at, and chosen
C18_Witness ==
  /\ pc = "validate"
  /\ typed_input \in valid_labels(labeled_options)
  /\ labeled_options # Question(selected[idx]).options
  /\ labeled_options[LabelIndex(typed_input)]
       # Question(selected[idx]).options[LabelIndex(typed_input)]
  /\ is_correct_answer(selected[idx], labeled_options, typed_input)

\* C21: in calculate_score the days since the last review lie in
\* [0, max_days] and the time factor in [0, 1] for every record, also for one
\* whose last_seen is later than the clock reads.  (The code only applies
\* min(..., max_days).)
C21_TimeFactorInUnitInterval ==
  \A q \in DOMAIN perf : \A cfg \in Configs :
    /\ time_since_last_review(perf[q], cfg, now) \in 0..cfg.max_days
    /\ RLe(Zero, time_factor(perf[q], cfg, now))
    /\ RLe(time_factor(perf[q], cfg, now), IntR(1))

\* the place of x in the list
PositionIn(list, x) == CHOOSE i \in 1..Len(list) : list[i] = x

\* x comes before y in the ascending order of the scores, ties in the order
\* of the enumeration
ComesBefore(x, y, score, questions) ==
  \/ RLt(score[x], score[y])
  \/ score[x] = score[y] /\ PositionIn(questions, x) < PositionIn(questions, y)

\* result is the first min(limit, pool size) questions of that order
IsStablePrefix(result, questions, score, limit) ==
  /\ Len(result) = (IF limit < Len(questions) THEN limit ELSE Len(questions))
  /\ \A i \in 1..Len(result) : \E k \in 1..Len(questions) : questions[k] = result[i]
  /\ \A i, j \in 1..Len(result) :
       i < j => ComesBefore(result[i], result[j], score, questions)
  /\ \A i \in 1..Len(result) : \A k \in 1..Len(questions) :
       (\A j \in 1..Len(result) : result[j] # questions[k])
         => ComesBefore(result[i], questions[k], score, questions)

\* C22: without random selection and with a limit >= 0, select_questions
\* returns the first min(limit, pool size) candidates in the order of
\* non-decreasing score, candidates of equal score in the order the store
\* enumerated them: for every enumeration of the scored pool, and the list
\* selected is the result for one of them.
C22_StableAscendingPrefix ==
  (pc = "selected" /\ ~args.random_selection /\ args.num_questions >= 0) =>
    /\ \A questions \in Enumerations(DOMAIN scored) :
         IsStablePrefix(select_questions(questions, scored, args.num_questions,
                                         FALSE, questions),
                        questions, scored, args.num_questions)
    /\ \E questions \in Enumerations(DOMAIN scored) :
         IsStablePrefix(selected, questions, scored, args.num_questions)

\* two questions of equal score selected against the order of their ids, from
\* a pool with a question of another score
C22_Witness ==
  /\ pc = "selected"
  /\ ~args.random_selection
  /\ args.num_questions = 2
  /\ Len(selected) = 2
  /\ scored[selected[1]] = scored[selected[2]]
  /\ selected[1] > selected[2]
  /\ \E q \in DOMAIN scored : scored[q] # scored[selected[1]]

\* C23: an update of an existing record sets next_review to now plus the
\* interval of the rank this same update leaves: floor(2^rank) days after a
\* correct answer, floor(1/rank) days after an incorrect one, at least 1.
C23_IntervalFromNewRank ==
  [][UpdatesExisting =>
       LET new == perf'[selected[idx]]
           days == IF answer.is_correct THEN IntPow2(new.current_rank)
                   ELSE Trunc(RInv(new.current_rank))
       IN  new.next_review = now + (IF days < 1 THEN 1 ELSE days)]_vars

\* a record whose second answer left the rank 3.55 and the review 11 days on
C23_Witness ==
  \E q \in DOMAIN perf :
    /\ perf[q].times_seen = 2
    /\ perf[q].current_rank = Rat(355, 100)
    /\ perf[q].next_review = perf[q].last_seen + 11

\* C24: for every record with times_seen > 1 the correctness change of the
\* trend factor is times_correct/times_seen minus
\* previous_times_correct/(times_seen - 1), also when no earlier answer was
\* correct; with times_seen <= 1 it is 0.  (The code also uses 0 whenever
\* previous_times_correct is 0.)
C24_CorrectnessChange ==
  \A q \in DOMAIN perf :
    change_correctness(perf[q]) =
      (IF perf[q].times_seen > 1
         THEN RSub(Rat(perf[q].times_correct, perf[q].times_seen),
                   Rat(perf[q].previous_times_correct, perf[q].times_seen - 1))
         ELSE Zero)

\* C27: a correct answer on an existing record never raises current_rank,
\* however slow the answer.  (A response slower than the previous average
\* makes the adjustment negative.)
C27_CorrectNeverRaisesRank ==
  [][(UpdatesExisting /\ answer.is_correct) =>
       RLe(perf'[selected[idx]].current_rank, perf[selected[idx]].current_rank)]_vars

\* the questions of the answers recorded so far
AnsweredQuestions(s) == [i \in 1..Len(s.questions_data) |-> s.questions_data[i].question]

\* C25: start_session selects the list once, before the first question, and
\* no update changes it; the questions are presented in the order of the
\* list, each once, and the update of question i comes after its answer and
\* before question i + 1 is presented.
C25_SelectedOnceInOrder ==
  [][/\ (selected' # selected =>
           \/ pc = "idle" /\ pc' = "selected"
           \/ pc \in {"report", "quit"} /\ pc' = "idle" /\ selected' = <<>>)
     /\ (pc = "selected" /\ pc' = "present" => idx' = 1 /\ perf' = perf)
     /\ (pc = "present" /\ pc' = "update" => idx' = idx /\ perf' = perf)
     /\ (pc = "update" /\ pc' # pc =>
           /\ idx' = idx + 1
           /\ pc' = (IF idx = Len(selected) THEN "report" ELSE "present")
           /\ \A q \in DOMAIN perf : q # selected[idx] => perf'[q] = perf[q])
     /\ (pc' \in {"present", "update"} =>
           /\ idx' \in 1..Len(selected')
           /\ AnsweredQuestions(stats') = SubSeq(selected', 1, idx' - 1))
     /\ (pc' = "report" => AnsweredQuestions(stats') = selected')
     /\ \A i, j \in 1..Len(selected') : selected'[i] = selected'[j] => i = j]_vars

\* a session of two questions, taken against the order of their ids, is over
C25_Witness ==
  /\ pc = "report"
  /\ Len(selected) = 2
  /\ selected[1] > selected[2]
  /\ HasPerf(selected[1]) /\ HasPerf(selected[2])

RECURSIVE SumOver(_, _, _)
SumOver(by_subject, subjects, field) ==
  IF subjects = {} THEN 0
  ELSE LET k == CHOOSE x \in subjects : TRUE
       IN  by_subject[k][field] + SumOver(by_subject, subjects \ {k}, field)

\* C26: when the report is produced correct_answers is the number of
\* correctly answered questions and at most total_questions, the subjects'
\* totals add up to total_questions and their correct counts to
\* correct_answers, every subject's total is at least 1, and the questions to
\* review are the incorrectly answered questions in the order of the answers.
C26_ReportConsistent ==
  pc = "report" =>
    LET data == stats.questions_data
        wrong == {i \in 1..Len(data) : ~data[i].correct}
        review == incorrect_questions(stats)
    IN  /\ Len(data) = stats.total_questions
        /\ stats.correct_answers = Cardinality({i \in 1..Len(data) : data[i].correct})
        /\ stats.correct_answers <= stats.total_questions
        /\ SumOver(stats.by_subject, DOMAIN stats.by_subject, "total")
             = stats.total_questions
        /\ SumOver(stats.by_subject, DOMAIN stats.by_subject, "correct")
             = stats.correct_answers
        /\ \A k \in DOMAIN stats.by_subject : stats.by_subject[k].total >= 1
        /\ Len(review) = Cardinality(wrong)
        /\ \A i \in 1..Len(review) :
             /\ ~review[i].correct
             /\ \E k \in wrong :
                  /\ review[i] = data[k]
                  /\ Cardinality({j \in wrong : j <= k}) = i
                  /\ data[k].question = selected[k]

\* a report over two questions of one subject, one answered correctly and
\* the other not
C26_Witness ==
  /\ pc = "report"
  /\ Len(stats.questions_data) = 2
  /\ Cardinality(DOMAIN stats.by_subject) = 1
  /\ stats.correct_answers = 1
  /\ ~stats.questions_data[1].correct

\* C29: when update_performance fails before its commit the table is exactly
\* what it was, for the question answered and for all others, and
\* start_session still counts the answer in the session statistics.
C29_FailedUpdateLeavesStore ==
  [][(pc = "update" /\ pc' # pc /\ history' = history) =>
       /\ perf' = perf
       /\ Len(stats'.questions_data) = Len(stats.questions_data) + 1
       /\ stats'.questions_data[Len(stats'.questions_data)].question = selected[idx]
       /\ stats'.questions_data[Len(stats'.questions_data)].correct = answer.is_correct
       /\ stats'.correct_answers
            = stats.correct_answers + (IF answer.is_correct THEN 1 ELSE 0)
       /\ stats'.total_time = stats.total_time + answer.response_time]_vars

\* a correct answer is counted in the statistics while its question has no record
C29_Witness ==
  /\ pc \in {"present", "report"}
  /\ Len(stats.questions_data) >= 1
  /\ stats.questions_data[1].correct
  /\ stats.correct_answers >= 1
  /\ ~HasPerf(stats.questions_data[1].question)

\* C28: present_question can finish for every question of a session: when
\* the options are shown, some input is a label among them; also for a
\* question whose stored options parse to the empty list.  (Without options
\* no label is shown and every input is rejected.)
C28_SomeInputAccepted ==
  pc = "input" => \E input \in UserInputs : input \in valid_labels(labeled_options)

\* the number of rows with this text
CountOf(list, x) == Cardinality({i \in 1..Len(list) : list[i] = x})

\* C30: after any calls of ingest_single and ingest_bulk no two stored
\* questions share a question_text, and every complete question of an
\* ingest_bulk input whose text was not stored before is stored exactly once
\* after the call, also when the input holds its text twice.  (The default
\* batch inserts both copies, the unique constraint fails and the batch is
\* rolled back.)
C30_BulkStoresEachTextOnce ==
  [][/\ NoDuplicates(stored' \o added')
     /\ ingest_log'.call = "bulk" =>
          \A i \in 1..Len(ingest_log'.input) :
            LET q == ingest_log'.input[i]
            IN  (q.complete /\ ~Occurs(stored \o added, q.question_text))
                  => CountOf(stored', q.question_text) = 1]_vars

====
